---- MODULE Spec2Model ----
(***************************************************************************)
(* Model of the apk module (lib/ansible/modules/extras/packaging/os/apk.py) *)
(* One run of main() is a sequence of steps, one per backend command and    *)
(* the decision that follows it.  The apk package database is the backend.  *)
(***************************************************************************)
EXTENDS Integers, Sequences, FiniteSets, TLC

\* ------------------------------------------------------------------ bounds
MaxNames == 2
MaxRuns == 2

\* a package name is its text, one character per element: the name is put
\* into a regular expression as it is, so its characters matter
foo == <<"f", "o", "o">>
gpp == <<"g", "+", "+">>

Packages == {foo, gpp}

\* status of a package in the apk database, relative to the local index:
\* absent, current (installed = candidate), stale (candidate newer),
\* ahead (installed newer than candidate)
Statuses == {"absent", "current", "stale", "ahead"}

States == {"present", "installed", "absent", "removed", "latest"}

NameSeqs == UNION {[1..n -> Packages] : n \in 0..MaxNames}

VARIABLES
    p,            \* module.params: state, name, has_name, update_cache, upgrade
    check_mode,   \* module.check_mode
    db,           \* apk database: package -> status
    pc,           \* position in main()
    idx,          \* position of the for loop over names
    uninstalled,  \* install_packages: uninstalled
    upgrade,      \* install_packages: upgrade
    installed,    \* remove_packages: installed
    calls,        \* module.run_command invocations of this run, with results
    outcome,      \* what exit_json / fail_json reported
    frame,        \* the function whose exit_json / fail_json ended the run
    run,          \* number of the current run
    prev          \* the previous run: what it reported, and whether its queries were answered

vars == <<p, check_mode, db, pc, idx, uninstalled, upgrade,
          installed, calls, outcome, frame, run, prev>>

locals == <<idx, uninstalled, upgrade, installed>>

\* ------------------------------------------------------------ text helpers
NoOutcome == [kind |-> "none", changed |-> FALSE, msg |-> "", names |-> <<>>]

\* module.exit_json(changed=..., msg=...)
exit_json(changed, msg, names) ==
    [kind |-> "exit", changed |-> changed, msg |-> msg, names |-> names]

\* module.fail_json(msg=...)
fail_json(msg, names) ==
    [kind |-> "fail", changed |-> FALSE, msg |-> msg, names |-> names]

\* an uncaught Python exception: nothing is reported
Traceback == [kind |-> "exception", changed |-> FALSE, msg |-> "TypeError", names |-> <<>>]

\* the uncaught exception of query_latest for a pattern that does not compile
ReError == [kind |-> "exception", changed |-> FALSE, msg |-> "re.error", names |-> <<>>]

\* a line of command output
Line(tag, pkg, marker) == [tag |-> tag, pkg |-> pkg, marker |-> marker]

\* a module.run_command invocation and what it returned
Call(cmd, names, upg, sim, rc, out) ==
    [cmd |-> cmd, names |-> names, upgrade |-> upg, simulate |-> sim,
     rc |-> rc, out |-> out]

Range(s) == {s[k] : k \in 1..Len(s)}

\* --------------------------------------------------------------- backend
\* "apk -v info --installed NAME": exit status 0 when installed, 1 when not;
\* any other status is a failure of the query itself.
InfoRcs(name) == {IF db[name] # "absent" THEN 0 ELSE 1, 99}

\* "apk version NAME": a header, then the line of the package when it is
\* installed, or no line at all when the command fails. query_latest reads
\* whatever the command printed, and its pattern is looked for anywhere in it:
\* the last output has, in place of the package's line, the line of another
\* package (libNAME) that has an update.
VersionLine(name) ==
    CASE db[name] = "stale" -> <<Line("verline", name, "<")>>
      [] db[name] = "current" -> <<Line("verline", name, "=")>>
      [] db[name] = "ahead" -> <<Line("verline", name, ">")>>
      [] OTHER -> <<>>

VersionOuts(name) ==
    { <<Line("header", "", "")>> \o VersionLine(name),
      <<Line("header", "", "")>>,
      <<Line("header", "", ""), Line("verline", <<"l", "i", "b">> \o name, "<")>> }

\* "apk update": the index learns the versions published since the last
\* refresh; news are the packages that have one
RefreshedDb(news) ==
    [n \in Packages |->
        IF n \in news /\ db[n] \in {"current", "ahead"} THEN "stale" ELSE db[n]]

\* "apk upgrade [--simulate]": output starts with the upgrade steps when there
\* are any, and ends with the OK summary line
UpgradeOut ==
    IF \E n \in Packages : db[n] = "stale"
    THEN <<Line("Upgrading", "", ""), Line("OK", "", "")>>
    ELSE <<Line("OK", "", "")>>

UpgradedDb == [n \in Packages |-> IF db[n] = "stale" THEN "current" ELSE db[n]]

\* "apk add [--upgrade] NAMES": installs the named packages that are absent;
\* with --upgrade also brings the named stale packages to the candidate
AddedDb(names, upg) ==
    [n \in Packages |->
        IF n \in Range(names) /\ db[n] = "absent" THEN "current"
        ELSE IF n \in Range(names) /\ upg /\ db[n] = "stale" THEN "current"
        ELSE db[n]]

\* "apk del --purge NAMES"
DeletedDb(names) ==
    [n \in Packages |-> IF n \in Range(names) THEN "absent" ELSE db[n]]

\* ------------------------------------------------------- pure functions
\* query_package: rc == 0
query_package(rc) == rc = 0

\* the Python interpreters the module is run by: 2.x, and 3.11 or later whose
\* re has possessive quantifiers
Interpreters == {"py2", "py3"}

\* search_pattern is "(NAME)-..." with NAME put in as it is, so the characters
\* of NAME that are regular expression syntax act as such. "." and "+" occur
\* in package names and are carried out below; a name with one of the other
\* syntax characters is not taken apart
Syntax == {"*", "?", "[", "]", "(", ")", "{", "}", "|", "\\", "^", "$"}

RECURSIVE Items(_, _)
\* the name from position i on as the items of a pattern: an atom ("." is any
\* character but a newline, every other character is itself) and how often it
\* is taken: once, repeated by "+" (giving characters back when the rest does
\* not match), or repeated by "++" without giving back
Items(name, i) ==
    IF i > Len(name) THEN <<>>
    ELSE LET plus == i + 1 <= Len(name) /\ name[i + 1] = "+"
             poss == plus /\ i + 2 <= Len(name) /\ name[i + 2] = "+"
         IN  <<[atom |-> name[i], any |-> name[i] = ".",
                rep |-> IF poss THEN "possessive" ELSE IF plus THEN "greedy" ELSE "once"]>>
             \o Items(name, i + (IF poss THEN 3 ELSE IF plus THEN 2 ELSE 1))

\* re.compile of "(NAME)-...": a leading "+" has nothing to repeat; "++" is a
\* multiple repeat for Python 2 and a possessive quantifier for Python 3.11,
\* where "+++" is the multiple repeat. A name with other syntax characters is
\* reported as unsupported
Parse(py, name) ==
    LET Plus(i) == name[i] = "+"
        leading == Len(name) >= 1 /\ Plus(1)
        twice == \E i \in 2..Len(name) : Plus(i) /\ Plus(i - 1)
        thrice == \E i \in 3..Len(name) : Plus(i) /\ Plus(i - 1) /\ Plus(i - 2)
    IN  IF \E i \in 1..Len(name) : name[i] \in Syntax
        THEN [status |-> "unsupported", items |-> <<>>]
        ELSE IF leading \/ thrice \/ (py = "py2" /\ twice)
        THEN [status |-> "error", items |-> <<>>]
        ELSE [status |-> "ok", items |-> Items(name, 1)]

RECURSIVE MatchRun(_, _, _)
\* the number of characters of text from j on that the item's atom matches in
\* a row
MatchRun(item, text, j) ==
    IF j <= Len(text) /\ (IF item.any THEN text[j] # "\n" ELSE text[j] = item.atom)
    THEN 1 + MatchRun(item, text, j + 1)
    ELSE 0

RECURSIVE MatchAt(_, _, _, _)
\* the items from i on match text[j..] up to its end
MatchAt(items, i, text, j) ==
    IF i > Len(items) THEN j = Len(text) + 1
    ELSE LET most == MatchRun(items[i], text, j)
             \* the characters after PKG start with "-": a run without giving
             \* back that reaches the end of PKG goes on into them
             beyond == j + most = Len(text) + 1 /\ items[i].atom \in {".", "-"}
         IN  CASE items[i].rep = "possessive" ->
                    most >= 1 /\ ~beyond /\ MatchAt(items, i + 1, text, j + most)
               [] items[i].rep = "greedy" ->
                    \E r \in 1..most : MatchAt(items, i + 1, text, j + r)
               [] OTHER ->
                    most >= 1 /\ MatchAt(items, i + 1, text, j + 1)

\* search_pattern found in a line: the line has the shape
\* PKG-VER-REL MARKER VER-REL and the items match PKG from some position up to
\* its end (the search is not anchored at the line start)
Search(items, line) ==
    /\ line.tag = "verline"
    /\ \E s \in 1..(Len(line.pkg) + 1) : MatchAt(items, 1, line.pkg, s)

\* re.search(search_pattern, stdout): the lines the pattern is found in
Matches(items, stdout) ==
    {k \in 1..Len(stdout) : Search(items, stdout[k])}

FirstMatch(items, stdout) ==
    CHOOSE k \in Matches(items, stdout) : \A j \in Matches(items, stdout) : k <= j

\* query_latest: what the call can come to. It raises when the pattern does
\* not compile, returns False when the first line the pattern is found in
\* carries "<", and True otherwise. For a name that is not taken apart any of
\* the three is possible
query_latest(py, name, stdout) ==
    LET pat == Parse(py, name) IN
    IF pat.status = "unsupported" THEN {"raise", "True", "False"}
    ELSE IF pat.status = "error" THEN {"raise"}
    ELSE IF /\ Matches(pat.items, stdout) # {}
            /\ stdout[FirstMatch(pat.items, stdout)].marker = "<"
    THEN {"False"}
    ELSE {"True"}

\* re.search('^OK', stdout)
StartsWithOK(stdout) == Len(stdout) > 0 /\ stdout[1].tag = "OK"

\* upgrade_packages: the result reported for exit status rc and output stdout
UpgradeResult(rc, stdout) ==
    IF rc # 0 THEN fail_json("failed to upgrade packages", <<>>)
    ELSE IF StartsWithOK(stdout) THEN exit_json(FALSE, "packages already upgraded", <<>>)
    ELSE exit_json(TRUE, "upgraded packages", <<>>)

\* install_packages: not uninstalled and not upgrade
NothingToInstall(uninst, upg) == uninst = <<>> /\ ~upg

\* variant: the command names every requested package
InstallNames_All(uninst) == p.name

\* install_packages: names = " ".join(uninstalled)
InstallNames(uninst) == uninst

\* variant: a dry run reports nothing to do
InstallResult_DryUnchanged(rc, names) ==
    IF check_mode THEN exit_json(FALSE, "package(s) already installed", <<>>)
    ELSE IF rc # 0 THEN fail_json("failed to install", names)
    ELSE exit_json(TRUE, "installed package(s)", names)

\* variant: the exit status of "apk add" is not looked at
InstallResult_Unchecked(rc, names) == exit_json(TRUE, "installed package(s)", names)

\* install_packages: the result reported for exit status rc of "apk add"
InstallResult(rc, names) ==
    IF rc # 0 THEN fail_json("failed to install", names)
    ELSE exit_json(TRUE, "installed package(s)", names)

\* variant: the empty list does not end the function
NothingToRemove_Never(inst) == FALSE

\* remove_packages: not installed
NothingToRemove(inst) == inst = <<>>

\* remove_packages: the result reported for exit status rc of "apk del"
RemoveResult(rc, names) ==
    IF rc # 0 THEN fail_json("failed to remove package(s)", names)
    ELSE exit_json(TRUE, "removed package(s)", names)

\* variant: the refresh always ends the run
NoName_Always(params) == TRUE

\* variant: the refresh never ends the run
NoName_Never(params) == FALSE

\* main: not p['name'] (None or an empty list)
NoName(params) == params.name = <<>>

\* variant: the version query is made for every state
WantsLatest_Any(state) == TRUE

\* install_packages: state == 'latest', the condition of the version query
WantsLatest(state) == state = "latest"

\* variant: the commands never carry --simulate
Simulate_Never(cm) == FALSE

\* upgrade_packages / install_packages / remove_packages: the command carries
\* --simulate when module.check_mode is set
Simulate(cm) == cm

\* variant: the refresh is marked simulated in check mode
UpdateCall_Simulated(rc) == Call("update", <<>>, FALSE, check_mode, rc, <<>>)

\* update_package_db: cmd = "apk update", run as it is
UpdateCall(rc) == Call("update", <<>>, FALSE, FALSE, rc, <<>>)

\* variant: the command is run a second time
InstallCalls_Twice(names, upg, sim, rc) ==
    <<Call("add", names, upg, sim, rc, <<>>), Call("add", names, upg, sim, rc, <<>>)>>

\* install_packages: the one run_command of "apk add"
InstallCalls(names, upg, sim, rc) == <<Call("add", names, upg, sim, rc, <<>>)>>

\* normalize the state parameter
Normalize(s) ==
    IF s \in {"present", "installed"} THEN "present"
    ELSE IF s \in {"absent", "removed"} THEN "absent"
    ELSE s

\* main: which per-package function runs for the (normalized) state
Dispatch(s) ==
    IF s \in {"present", "latest"} THEN "install_packages" ELSE "remove_packages"

\* main: where control goes once the refresh is behind
AfterUpdate(params) ==
    IF params.upgrade THEN "upgrade_packages" ELSE Dispatch(params.state)

\* variant: the refresh is left out
FirstStep_NoRefresh(params) == AfterUpdate(params)

\* main: the first step after the path check and the normalization
FirstStep(params) ==
    IF params.update_cache THEN "update_package_db" ELSE AfterUpdate(params)

\* every query of the log was answered: installed or not, and the version
\* line of the package in the expected shape
Answered(log) ==
    \A k \in 1..Len(log) :
        /\ log[k].cmd = "info" => log[k].rc \in {0, 1}
        /\ log[k].cmd = "version" =>
              \E j \in 1..Len(log[k].out) :
                  log[k].out[j].tag = "verline" /\ log[k].out[j].pkg = log[k].names[1]

\* ------------------------------------------------------------------ Init
Init ==
    /\ p \in [state : States, name : NameSeqs, has_name : BOOLEAN,
              update_cache : BOOLEAN, upgrade : BOOLEAN]
    /\ (~p.has_name => p.name = <<>>)
    /\ check_mode \in BOOLEAN
    /\ db \in [Packages -> Statuses]
    /\ pc = "main"
    /\ idx = 1
    /\ uninstalled = <<>>
    /\ upgrade = FALSE
    /\ installed = <<>>
    /\ calls = <<>>
    /\ outcome = NoOutcome
    /\ frame = "none"
    /\ run = 1
    /\ prev = [kind |-> "none", changed |-> FALSE, answered |-> TRUE]

\* exit_json / fail_json end the run
Finish(o, f) ==
    /\ outcome' = o
    /\ frame' = f
    /\ pc' = "done"

\* the run goes on at position q
Goto(q) ==
    /\ pc' = q
    /\ UNCHANGED <<outcome, frame>>

\* the local variables of the per-package functions, as at their entry
ResetLocals ==
    /\ idx' = 1
    /\ uninstalled' = <<>>
    /\ upgrade' = FALSE
    /\ installed' = <<>>

\* --------------------------------------------------------------- actions
\* main, up to the first backend command: the apk path check and the
\* normalization of the state parameter
main ==
    /\ pc = "main"
    /\ \E exists \in BOOLEAN :
        IF ~exists
        THEN /\ Finish(fail_json("cannot find apk", <<>>), "main")
             /\ p' = p
        ELSE /\ p' = [p EXCEPT !.state = Normalize(p.state)]
             /\ Goto(FirstStep([p EXCEPT !.state = Normalize(p.state)]))
    /\ UNCHANGED <<check_mode, db, locals, calls, run, prev>>

\* update_package_db, and main's exit when no name was given
update_package_db ==
    /\ pc = "update_package_db"
    /\ \E rc \in {0, 1}, news \in SUBSET Packages :
        /\ calls' = Append(calls, UpdateCall(rc))
        /\ IF rc = 0
           THEN /\ db' = RefreshedDb(news)
                /\ IF NoName(p)
                   THEN Finish(exit_json(TRUE, "updated repository indexes", <<>>), "main")
                   ELSE Goto(AfterUpdate(p))
           ELSE /\ Finish(fail_json("could not update package db", <<>>),
                          "update_package_db")
                /\ db' = db
    /\ UNCHANGED <<p, check_mode, locals, run, prev>>

\* variant: upgrade_packages returns to main after a successful upgrade
upgrade_packages_Returns ==
    /\ pc = "upgrade_packages"
    /\ \E rc \in {0, 1} :
        LET stdout == IF rc = 0 THEN UpgradeOut ELSE <<>>
            sim == Simulate(check_mode) IN
        /\ calls' = Append(calls, Call("upgrade", <<>>, FALSE, sim, rc, stdout))
        /\ db' = IF rc = 0 /\ ~sim THEN UpgradedDb ELSE db
        /\ IF rc = 0 /\ p.has_name
           THEN Goto(Dispatch(p.state))
           ELSE Finish(UpgradeResult(rc, stdout), "upgrade_packages")
    /\ UNCHANGED <<p, check_mode, locals, run, prev>>

\* upgrade_packages
upgrade_packages ==
    /\ pc = "upgrade_packages"
    /\ \E rc \in {0, 1} :
        LET stdout == IF rc = 0 THEN UpgradeOut ELSE <<>>
            sim == Simulate(check_mode) IN
        /\ calls' = Append(calls, Call("upgrade", <<>>, FALSE, sim, rc, stdout))
        /\ db' = IF rc = 0 /\ ~sim THEN UpgradedDb ELSE db
        /\ Finish(UpgradeResult(rc, stdout), "upgrade_packages")
    /\ UNCHANGED <<p, check_mode, locals, run, prev>>

\* install_packages / remove_packages called with names = None:
\* "for name in names" raises TypeError
iterate_none ==
    /\ pc \in {"install_packages", "remove_packages"}
    /\ ~p.has_name
    /\ Finish(Traceback, pc)
    /\ UNCHANGED <<p, check_mode, db, locals, calls, run, prev>>

\* install_packages: one iteration of the loop over names
install_packages_query ==
    /\ pc = "install_packages"
    /\ p.has_name
    /\ idx <= Len(p.name)
    /\ LET name == p.name[idx] IN
       \E rc \in InfoRcs(name) :
        LET info == Call("info", <<name>>, FALSE, FALSE, rc, <<>>) IN
        IF ~query_package(rc)
        THEN /\ uninstalled' = Append(uninstalled, name)
             /\ upgrade' = upgrade
             /\ calls' = Append(calls, info)
             /\ idx' = idx + 1
             /\ Goto(pc)
        ELSE IF WantsLatest(p.state)
        THEN \E out \in VersionOuts(name), py \in Interpreters :
             \E latest \in query_latest(py, name, out) :
             /\ calls' = calls \o <<info, Call("version", <<name>>, FALSE, FALSE, 0, out)>>
             /\ uninstalled' = uninstalled
             /\ IF latest = "raise"
                THEN /\ Finish(ReError, "install_packages")
                     /\ UNCHANGED <<idx, upgrade>>
                ELSE /\ upgrade' = (upgrade \/ latest = "False")
                     /\ idx' = idx + 1
                     /\ Goto(pc)
        ELSE /\ calls' = Append(calls, info)
             /\ idx' = idx + 1
             /\ Goto(pc)
             /\ UNCHANGED <<uninstalled, upgrade>>
    /\ UNCHANGED <<p, check_mode, db, installed, run, prev>>

\* install_packages: after the loop
install_packages_run ==
    /\ pc = "install_packages"
    /\ p.has_name
    /\ idx > Len(p.name)
    /\ IF NothingToInstall(uninstalled, upgrade)
       THEN /\ Finish(exit_json(FALSE, "package(s) already installed", <<>>),
                      "install_packages")
            /\ UNCHANGED <<db, calls>>
       ELSE \E rc \in {0, 1} :
            LET names == InstallNames(uninstalled)
                sim == Simulate(check_mode) IN
            /\ calls' = calls \o InstallCalls(names, upgrade, sim, rc)
            /\ db' = IF rc = 0 /\ ~sim THEN AddedDb(names, upgrade) ELSE db
            /\ Finish(InstallResult(rc, names), "install_packages")
    /\ UNCHANGED <<p, check_mode, locals, run, prev>>

\* remove_packages: one iteration of the loop over names
remove_packages_query ==
    /\ pc = "remove_packages"
    /\ p.has_name
    /\ idx <= Len(p.name)
    /\ LET name == p.name[idx] IN
       \E rc \in InfoRcs(name) :
        /\ calls' = Append(calls, Call("info", <<name>>, FALSE, FALSE, rc, <<>>))
        /\ installed' = IF query_package(rc) THEN Append(installed, name) ELSE installed
    /\ idx' = idx + 1
    /\ UNCHANGED <<p, check_mode, db, pc, uninstalled, upgrade, outcome,
                   frame, run, prev>>

\* remove_packages: after the loop
remove_packages_run ==
    /\ pc = "remove_packages"
    /\ p.has_name
    /\ idx > Len(p.name)
    /\ IF NothingToRemove(installed)
       THEN /\ Finish(exit_json(FALSE, "package(s) already removed", <<>>),
                      "remove_packages")
            /\ UNCHANGED <<db, calls>>
       ELSE \E rc \in {0, 1} :
            LET sim == Simulate(check_mode) IN
            /\ calls' = Append(calls, Call("del", installed, FALSE, sim, rc, <<>>))
            /\ db' = IF rc = 0 /\ ~sim THEN DeletedDb(installed) ELSE db
            /\ Finish(RemoveResult(rc, installed), "remove_packages")
    /\ UNCHANGED <<p, check_mode, locals, run, prev>>

\* the state parameter a task can have been written with, given what
\* module.params holds at the end of its run: main has replaced the spellings
\* installed and removed by present and absent
TaskStates(params) ==
    IF params.state \in {"installed", "removed"} THEN {params.state}
    ELSE {s \in States : Normalize(s) = params.state}

\* the task is run again: the module is started anew with the parameters of
\* the task, whatever the run before reported
Rerun ==
    /\ pc = "done"
    /\ run < MaxRuns
    /\ \E s \in TaskStates(p) : p' = [p EXCEPT !.state = s]
    /\ run' = run + 1
    /\ prev' = [kind |-> outcome.kind, changed |-> outcome.changed,
                answered |-> Answered(calls)]
    /\ pc' = "main"
    /\ calls' = <<>>
    /\ outcome' = NoOutcome
    /\ frame' = "none"
    /\ ResetLocals
    /\ UNCHANGED <<check_mode, db>>

Next ==
    \/ main
    \/ update_package_db
    \/ upgrade_packages
    \/ iterate_none
    \/ install_packages_query
    \/ install_packages_run
    \/ remove_packages_query
    \/ remove_packages_run
    \/ Rerun

Spec == Init /\ [][Next]_vars

\* ------------------------------------------- a dry run, then the real run
\* a task that only reconciles named packages is first run in check mode
InitDry == Init /\ check_mode /\ ~p.update_cache /\ ~p.upgrade

\* after the dry run the task is run for real with the same parameters; the
\* calls of a dry run that was answered and ended normally are kept for
\* comparison
RerunForReal ==
    /\ pc = "done"
    /\ check_mode
    /\ \E s \in TaskStates(p) : p' = [p EXCEPT !.state = s]
    /\ check_mode' = FALSE
    /\ run' = run + 1
    /\ prev' = [kind |-> outcome.kind, changed |-> outcome.changed,
                answered |-> Answered(calls), outcome |-> outcome,
                calls |-> IF Answered(calls) /\ outcome.kind = "exit"
                          THEN calls ELSE <<>>]
    /\ pc' = "main"
    /\ calls' = <<>>
    /\ outcome' = NoOutcome
    /\ frame' = "none"
    /\ ResetLocals
    /\ UNCHANGED db

NextDry ==
    \/ main
    \/ iterate_none
    \/ install_packages_query
    \/ install_packages_run
    \/ remove_packages_query
    \/ remove_packages_run
    \/ RerunForReal

SpecDry == InitDry /\ [][NextDry]_vars

TypeOK ==
    /\ pc \in {"main", "update_package_db", "upgrade_packages",
               "install_packages", "remove_packages", "done"}
    /\ outcome.kind \in {"none", "exit", "fail", "exception"}
    /\ run \in 1..MaxRuns
    /\ (pc = "done") = (outcome.kind # "none")
    /\ (pc = "done") = (frame # "none")

\* ------------------------------------------------- reading the call log
Idxs(log, c) == {k \in 1..Len(log) : log[k].cmd = c}

\* the transactions (apk add / apk del) of a log
Txns(log) == {k \in 1..Len(log) : log[k].cmd \in {"add", "del"}}

Mutating == {"update", "upgrade", "add", "del"}

NamesOf(log) == [k \in 1..Len(log) |-> log[k].names[1]]

InfoCalls(log) == SelectSeq(log, LAMBDA e : e.cmd = "info")

\* the queried names whose isInstalled query returned exit status 0 / not 0
ReportedInstalled(log) == NamesOf(SelectSeq(log, LAMBDA e : e.cmd = "info" /\ e.rc = 0))
ReportedNotInstalled(log) == NamesOf(SelectSeq(log, LAMBDA e : e.cmd = "info" /\ e.rc # 0))

\* the version queries that showed the package's own line with marker "<"
ShownNewer(log) ==
    {k \in Idxs(log, "version") :
        \E j \in 1..Len(log[k].out) :
            log[k].out[j] = Line("verline", log[k].names[1], "<")}

\* the version queries that showed the package's own line with marker "<" and
\* were read as an update
ReportedStale(log) ==
    {k \in ShownNewer(log) :
        \E py \in Interpreters :
            "False" \in query_latest(py, log[k].names[1], log[k].out)}

ApkFound == outcome.msg # "cannot find apk"

\* a run that reconciles the named packages and nothing else
PerPackage == p.has_name /\ ~p.update_cache /\ ~p.upgrade

Desired(n) ==
    CASE p.state = "present" -> db[n] # "absent"
      [] p.state = "absent" -> db[n] = "absent"
      [] OTHER -> db[n] \in {"current", "ahead"}

\* ------------------------------------------------------------------ claims
\* C1 Idempotence: when a non-simulated per-package run (no update_cache, no
\* upgrade) has completed successfully and the task is run again with the same
\* state and names against the unchanged backend, the second run reports
\* changed=false.
C1_Idempotence ==
    (/\ pc = "done" /\ run = 2
     /\ PerPackage /\ ~check_mode
     /\ prev.kind = "exit"
     /\ prev.answered /\ Answered(calls)
     /\ outcome.kind = "exit")
    => outcome.changed = FALSE

\* C2 Latest with a stale package: under state latest every named package the
\* backend reports installed with an update available is named in the
\* install/upgrade batch submitted to the backend, the batch carries the
\* upgrade modifier, and the run reports changed=true.
C2_LatestStaleNamed ==
    (pc = "done" /\ frame = "install_packages" /\ p.state = "latest"
        /\ outcome.kind = "exit")
    => \A k \in ReportedStale(calls) :
          /\ \E j \in Idxs(calls, "add") :
                /\ calls[j].upgrade
                /\ calls[k].names[1] \in Range(calls[j].names)
          /\ outcome.changed

\* C3 Convergence: after a non-simulated per-package run that ends with a
\* normal outcome, every requested package is in the desired state: installed
\* under present, not installed under absent, installed with no update
\* available under latest.
C3_Convergence ==
    (/\ pc = "done" /\ frame \in {"install_packages", "remove_packages"}
     /\ ~check_mode
     /\ outcome.kind = "exit"
     /\ Answered(calls))
    => \A n \in Range(p.name) : Desired(n)

\* C4 Upgrade-all always runs when requested: in every run with upgrade=true
\* whose refresh (if requested) succeeded, upgradeAll is invoked exactly once,
\* after the refresh, and the run's outcome is the upgrade-all outcome, whether
\* or not package names were supplied.
C4_UpgradeAlwaysRuns ==
    (/\ pc = "done" /\ p.upgrade /\ ApkFound
     /\ \A k \in Idxs(calls, "update") : calls[k].rc = 0)
    => /\ Cardinality(Idxs(calls, "upgrade")) = 1
       /\ calls[Len(calls)].cmd = "upgrade"
       /\ frame = "upgrade_packages"
       /\ outcome = UpgradeResult(calls[Len(calls)].rc, calls[Len(calls)].out)

\* C5 No empty transaction: under present or latest no install transaction is
\* submitted with an empty list of names; when the list of names to
\* install/upgrade is empty the run reports changed=false with "package(s)
\* already installed" and issues no mutating call; changed=true is reported
\* only when that list is non-empty.
C5_NoEmptyTransaction ==
    /\ \A k \in Idxs(calls, "add") : calls[k].names # <<>>
    /\ (pc = "done" /\ frame = "install_packages" /\ outcome.kind # "exception"
            /\ uninstalled = <<>>)
       => /\ outcome = exit_json(FALSE, "package(s) already installed", <<>>)
          /\ Txns(calls) = {}
    /\ (pc = "done" /\ frame = "install_packages" /\ outcome.kind = "exit"
            /\ outcome.changed)
       => uninstalled # <<>>

\* a finished run of install_packages under state present
PresentRan ==
    /\ pc = "done" /\ frame = "install_packages" /\ p.state = "present"
    /\ outcome.kind # "exception"

\* no call of the log changes the index or the installed set
NoMutatingCall(log) ==
    \A k \in 1..Len(log) : log[k].cmd \notin Mutating

\* C6 (as stated) Present: in a per-package run (no update_cache, no upgrade)
\* whose queries were all answered, the install batch is exactly the requested
\* names the backend reports not installed, in request order; if there is none
\* the run reports changed=false with "package(s) already installed" and
\* issues no mutating call; otherwise exactly one install transaction naming
\* exactly those packages is submitted and the run reports changed=true.
C6_PresentAsStated ==
    (PresentRan /\ PerPackage /\ Answered(calls)) =>
        LET batch == ReportedNotInstalled(calls) IN
        /\ NamesOf(InfoCalls(calls)) = p.name
        /\ batch = <<>> =>
              /\ outcome = exit_json(FALSE, "package(s) already installed", <<>>)
              /\ NoMutatingCall(calls)
        /\ batch # <<>> =>
              /\ Cardinality(Txns(calls)) = 1
              /\ \A k \in 1..Len(calls) :
                    calls[k].cmd \in Mutating =>
                        /\ calls[k].cmd = "add" /\ ~calls[k].upgrade
                        /\ calls[k].names = batch
              /\ outcome.kind = "exit" /\ outcome.changed

\* C6 (amended) Present: in a per-package run whose queries were all answered,
\* the install batch is exactly the requested names the backend reports not
\* installed, in request order; if there is none the run reports
\* changed=false with "package(s) already installed" and issues no mutating
\* call; otherwise exactly one install transaction naming exactly those
\* packages is submitted, and the run reports changed=true when that
\* transaction succeeds and ends with a fatal error naming the batch when it
\* fails.
C6_Present ==
    (PresentRan /\ PerPackage /\ Answered(calls)) =>
        LET batch == ReportedNotInstalled(calls) IN
        /\ NamesOf(InfoCalls(calls)) = p.name
        /\ batch = <<>> =>
              /\ outcome = exit_json(FALSE, "package(s) already installed", <<>>)
              /\ NoMutatingCall(calls)
        /\ batch # <<>> =>
              /\ Cardinality(Txns(calls)) = 1
              /\ \A k \in 1..Len(calls) :
                    calls[k].cmd \in Mutating =>
                        /\ calls[k].cmd = "add" /\ ~calls[k].upgrade
                        /\ calls[k].names = batch
                        /\ calls[k].rc = 0 => (outcome.kind = "exit" /\ outcome.changed)
                        /\ calls[k].rc # 0 =>
                              (outcome.kind = "fail" /\ outcome.names = batch)

\* foo installed, g++ not: the batch is <<g++>> and the run reports changed
C6_Witness ==
    /\ PresentRan /\ PerPackage /\ Answered(calls)
    /\ p.name = <<foo, gpp>>
    /\ ReportedNotInstalled(calls) = <<gpp>>
    /\ \E k \in Txns(calls) : calls[k].names = <<gpp>> /\ calls[k].rc = 0
    /\ outcome.kind = "exit" /\ outcome.changed

\* C7 Absent: in a per-package run (no update_cache, no upgrade) the remove
\* batch is exactly the requested names the backend reports installed; if
\* there is none the run reports changed=false with "package(s) already
\* removed" and issues no mutating call; otherwise exactly one remove
\* transaction naming exactly those packages is submitted, it is the only
\* mutating call, and on success the run reports changed=true.
C7_Absent ==
    (/\ pc = "done" /\ frame = "remove_packages" /\ outcome.kind # "exception"
     /\ PerPackage) =>
        LET batch == ReportedInstalled(calls) IN
        /\ p.state = "absent"
        /\ NamesOf(InfoCalls(calls)) = p.name
        /\ Idxs(calls, "version") = {}
        /\ batch = <<>> =>
              /\ outcome = exit_json(FALSE, "package(s) already removed", <<>>)
              /\ NoMutatingCall(calls)
        /\ batch # <<>> =>
              /\ Cardinality(Txns(calls)) = 1
              /\ \A k \in 1..Len(calls) :
                    calls[k].cmd \in Mutating =>
                        /\ calls[k].cmd = "del"
                        /\ calls[k].names = batch
                        /\ calls[k].rc = 0 => (outcome.kind = "exit" /\ outcome.changed)

\* foo installed, g++ not: the batch is <<foo>> and the run reports changed
C7_Witness ==
    /\ pc = "done" /\ frame = "remove_packages" /\ PerPackage
    /\ p.name = <<foo, gpp>>
    /\ ReportedInstalled(calls) = <<foo>>
    /\ \E k \in Txns(calls) : calls[k].names = <<foo>> /\ calls[k].rc = 0
    /\ outcome.kind = "exit" /\ outcome.changed

\* the fatal error names the failed operation or the attempted batch
NamesFailure(c, o) ==
    CASE c.cmd = "update" -> o.msg = "could not update package db"
      [] c.cmd = "upgrade" -> o.msg = "failed to upgrade packages"
      [] c.cmd = "add" -> o.msg = "failed to install" /\ o.names = c.names
      [] c.cmd = "del" -> o.msg = "failed to remove package(s)" /\ o.names = c.names
      [] OTHER -> FALSE

\* C8 Backend mutation failure is terminal: when refreshIndex, upgradeAll or
\* applyTransaction returns non-success the run ends with a fatal error naming
\* the failed operation or the attempted batch, does not report changed=true,
\* and makes no further backend call (so no retry either).
C8_MutationFailureTerminal ==
    \A k \in 1..Len(calls) :
        (calls[k].cmd \in Mutating /\ calls[k].rc # 0) =>
            /\ k = Len(calls)
            /\ pc = "done"
            /\ outcome.kind = "fail"
            /\ ~outcome.changed
            /\ NamesFailure(calls[k], outcome)

\* an install transaction naming g++ has failed
C8_Witness ==
    /\ pc = "done"
    /\ Len(calls) > 0
    /\ calls[Len(calls)].cmd = "add"
    /\ calls[Len(calls)].names = <<gpp>>
    /\ calls[Len(calls)].rc # 0
    /\ outcome.kind = "fail"

\* C9 A failed isInstalled query is fatal: when the query returns a
\* non-success completion signal (neither "installed" nor "not installed") the
\* run terminates with a fatal error and no transaction is submitted on the
\* basis of that query.
C9_QueryFailureFatal ==
    \A k \in Idxs(calls, "info") :
        (pc = "done" /\ calls[k].rc \notin {0, 1}) =>
            /\ outcome.kind = "fail"
            /\ \A j \in Txns(calls) : calls[k].names[1] \notin Range(calls[j].names)

\* C10 Refresh-only run: with update_cache=true, no package names and no
\* upgrade request, refreshIndex is invoked exactly once (by the end of a run
\* that found the apk executable), no isInstalled or hasUpdate query and no
\* transaction is issued, and on refresh success the run reports changed=true.
C10_RefreshOnly ==
    (p.update_cache /\ p.name = <<>> /\ ~p.upgrade) =>
        /\ \A k \in 1..Len(calls) : calls[k].cmd = "update"
        /\ Len(calls) <= 1
        /\ (pc = "done" /\ ApkFound) =>
              /\ Len(calls) = 1
              /\ calls[1].rc = 0 =>
                    outcome = exit_json(TRUE, "updated repository indexes", <<>>)
              /\ calls[1].rc # 0 => outcome.kind = "fail"

\* a refresh-only run has finished with changed=true
C10_Witness ==
    /\ pc = "done"
    /\ p.update_cache /\ p.name = <<>> /\ ~p.upgrade
    /\ Len(calls) = 1 /\ calls[1].cmd = "update" /\ calls[1].rc = 0
    /\ outcome.kind = "exit" /\ outcome.changed

Queries == {"info", "version"}

\* C11 Upgrade-all suppresses per-package reconciliation: in a run in which
\* upgradeAll is reached, no isInstalled or hasUpdate query and no
\* applyTransaction is issued, whatever names and state were supplied and
\* whatever upgradeAll returns; the upgrade ends the run.
C11_UpgradeSuppresses ==
    \A k \in Idxs(calls, "upgrade") :
        /\ p.upgrade
        /\ k = Len(calls)
        /\ pc = "done" /\ frame = "upgrade_packages"
        /\ \A j \in 1..Len(calls) : calls[j].cmd \notin Queries \cup {"add", "del"}

\* upgrade-all ran with names supplied under state absent, and reported a change
C11_Witness ==
    /\ pc = "done"
    /\ p.name = <<foo>> /\ p.state = "absent" /\ db[foo] # "absent"
    /\ Idxs(calls, "upgrade") # {}
    /\ calls[Len(calls)].rc = 0
    /\ outcome.changed

\* C13 Dry-run does not mutate packages: in check mode every applyTransaction
\* and every upgradeAll carries the simulate flag, and no step changes which
\* packages are installed or at which version (only a refresh may turn an
\* installed package stale by changing the index).
C13_DryRunNoMutation ==
    [][check_mode =>
        /\ \A k \in 1..Len(calls') :
              calls'[k].cmd \in {"upgrade", "add", "del"} => calls'[k].simulate
        /\ \A n \in Packages :
              \/ db'[n] = db[n]
              \/ /\ Len(calls') = Len(calls) + 1
                 /\ calls'[Len(calls')].cmd = "update"
                 /\ db[n] # "absent" /\ db'[n] = "stale"]_vars

\* a simulated install of the absent package foo succeeded and foo is absent
C13_Witness ==
    /\ check_mode /\ pc = "done"
    /\ Len(calls) > 0
    /\ calls[Len(calls)].cmd = "add" /\ calls[Len(calls)].simulate
    /\ calls[Len(calls)].names = <<foo>> /\ calls[Len(calls)].rc = 0
    /\ outcome.changed
    /\ db[foo] = "absent"

\* C14 hasUpdate fails closed: under latest an installed package is classified
\* stale only when the version output has the package's own line of the
\* expected shape with the "<" marker (only then is the upgrade modifier set
\* or passed); for any other output (unparseable, absent, same or older) the
\* package is classified current: a run in which no package's line showed "<"
\* and none was reported not installed ends unchanged with "package(s) already
\* installed" and no transaction.
C14_FailsClosed ==
    /\ upgrade => ShownNewer(calls) # {}
    /\ \A k \in Idxs(calls, "add") : calls[k].upgrade => ShownNewer(calls) # {}
    /\ (/\ pc = "done" /\ frame = "install_packages" /\ p.has_name
        /\ ShownNewer(calls) = {}
        /\ ReportedNotInstalled(calls) = <<>>)
       => /\ Txns(calls) = {}
          /\ outcome = exit_json(FALSE, "package(s) already installed", <<>>)

\* the version queries whose output has a line of a package other than the one
\* asked about
ShownOther(log) ==
    {k \in Idxs(log, "version") :
        \E j \in 1..Len(log[k].out) :
            log[k].out[j].tag = "verline" /\ log[k].out[j].pkg # log[k].names[1]}

\* hasUpdate does fail closed in the runs in which the pattern of every name
\* compiles and no output has the line of another package
FailsClosedOnOwnLines ==
    (/\ \A k \in 1..Len(p.name) : Parse("py2", p.name[k]).status = "ok"
     /\ ShownOther(calls) = {})
       => C14_FailsClosed

\* C15 Ordering: the refreshIndex call (if update_cache is requested) and the
\* upgradeAll call (if upgrade is requested) occur before any isInstalled or
\* hasUpdate query, refreshIndex occurs before upgradeAll, and no per-package
\* query precedes them.
C15_Ordering ==
    /\ \A j \in 1..Len(calls) :
          calls[j].cmd \in {"update", "upgrade"} =>
            \A i \in 1..(j - 1) :
                /\ calls[i].cmd \notin Queries
                /\ ~ (calls[i].cmd = "upgrade" /\ calls[j].cmd = "update")
    /\ \A j \in 1..Len(calls) :
          calls[j].cmd \in Queries =>
            /\ p.update_cache => calls[1].cmd = "update"
            /\ p.upgrade => \E i \in 1..(j - 1) : calls[i].cmd = "upgrade"

\* a refresh was followed by the query of foo
C15_Witness ==
    /\ p.update_cache
    /\ Len(calls) >= 2
    /\ calls[1].cmd = "update" /\ calls[1].rc = 0
    /\ calls[2].cmd = "info" /\ calls[2].names = <<foo>>

\* C16 Query discipline: a hasUpdate query of a package directly follows an
\* isInstalled query of the same package that returned true, and is made only
\* under state latest (never under present or absent, never for a package
\* reported not installed); all queries of a run precede its applyTransaction.
C16_QueryDiscipline ==
    /\ \A k \in Idxs(calls, "version") :
          /\ p.state = "latest"
          /\ k > 1
          /\ calls[k - 1].cmd = "info"
          /\ calls[k - 1].names = calls[k].names
          /\ calls[k - 1].rc = 0
    /\ \A k \in Txns(calls) :
          \A j \in 1..Len(calls) : calls[j].cmd \in Queries => j < k

\* latest, foo installed and g++ not: info foo, version foo, info g++, add g++
C16_Witness ==
    /\ pc = "done" /\ p.state = "latest" /\ p.name = <<foo, gpp>>
    /\ Len(calls) = 4
    /\ calls[1].cmd = "info" /\ calls[1].rc = 0
    /\ calls[2].cmd = "version" /\ calls[2].names = <<foo>>
    /\ calls[3].cmd = "info" /\ calls[3].rc = 1
    /\ calls[4].cmd = "add" /\ calls[4].names = <<gpp>>

\* C17 Disjointness and single batch: a run submits at most one
\* applyTransaction, an install/upgrade batch or a remove batch, never both; so
\* no package name is in both an install/upgrade batch and a remove batch.
C17_SingleBatch ==
    /\ Cardinality(Txns(calls)) <= 1
    /\ \A i \in Idxs(calls, "add"), j \in Idxs(calls, "del") :
          Range(calls[i].names) \cap Range(calls[j].names) = {}
    /\ \A k \in Txns(calls) :
          calls[k].cmd = IF p.state = "absent" THEN "del" ELSE "add"

\* a run has submitted its one transaction, naming foo and g++
C17_Witness ==
    /\ pc = "done"
    /\ Cardinality(Txns(calls)) = 1
    /\ \E k \in Txns(calls) : Range(calls[k].names) = {foo, gpp}

\* C18 When update_cache is combined with package names (and no upgrade), a
\* successful refresh does not count: changed is decided by the per-package
\* reconciliation alone, so a run that refreshed the index and found nothing to
\* install or remove reports changed=false.
C18_RefreshDoesNotCount ==
    (/\ pc = "done" /\ outcome.kind = "exit"
     /\ p.update_cache /\ p.name # <<>> /\ ~p.upgrade)
    => /\ Len(calls) >= 1
       /\ calls[1].cmd = "update" /\ calls[1].rc = 0
       /\ frame \in {"install_packages", "remove_packages"}
       /\ outcome.changed = (Txns(calls) # {})

\* the index was refreshed, foo was already installed, the run reports unchanged
C18_Witness ==
    /\ pc = "done" /\ p.update_cache /\ p.name = <<foo>> /\ p.state = "present"
    /\ Len(calls) >= 1
    /\ calls[1].cmd = "update" /\ calls[1].rc = 0
    /\ outcome = exit_json(FALSE, "package(s) already installed", <<>>)

\* C19 The index refresh is not simulated: refreshIndex is invoked in the same
\* form whether or not check mode is set, and it is invoked in a dry run that
\* requests update_cache (so a dry run may change the backend's view of the
\* available versions).
C19_RefreshNotSimulated ==
    /\ \A k \in Idxs(calls, "update") :
          /\ ~calls[k].simulate
          /\ calls[k] = Call("update", <<>>, FALSE, FALSE, calls[k].rc, <<>>)
    /\ (pc = "done" /\ p.update_cache /\ ApkFound) =>
          (Len(calls) >= 1 /\ calls[1].cmd = "update")

\* two dry runs of latest foo with update_cache: the first found foo current,
\* the refresh of the second made it stale
C19_Witness ==
    /\ check_mode /\ run = 2 /\ pc = "done"
    /\ p.update_cache /\ p.state = "latest" /\ p.name = <<foo>>
    /\ prev.answered /\ Answered(calls)
    /\ prev.kind = "exit" /\ ~prev.changed
    /\ Len(calls) >= 1
    /\ calls[1].cmd = "update" /\ ~calls[1].simulate /\ calls[1].rc = 0
    /\ ReportedStale(calls) # {}
    /\ outcome.changed

\* C20 Every run whose input satisfies the driver precondition (one of name,
\* update_cache, upgrade supplied, which required_one_of accepts whatever the
\* value of the flags; state one of present, absent, latest) and whose backend
\* calls all return ends having reported exactly one result, a normal outcome
\* or a fatal error.
C20_OneResult ==
    (pc = "done" /\ p.state \in {"present", "absent", "latest"})
        => outcome.kind \in {"exit", "fail"}

\* the runs with a name list, or with a flag that is true, do report one result
OneResultWithWork ==
    (/\ pc = "done"
     /\ p.has_name \/ p.update_cache \/ p.upgrade
     /\ \A k \in 1..Len(p.name) : Parse("py2", p.name[k]).status = "ok")
    => outcome.kind \in {"exit", "fail"}

\* a call without its simulate flag
Unflagged(c) == [c EXCEPT !.simulate = FALSE]

\* C12 Dry-run does not change the decision (checked under SpecDry): a
\* simulated and a non-simulated per-package run from the same backend state,
\* with the same names and state and the backend calls succeeding, issue the
\* same queries, submit the same batch and report the same changed value and
\* message; they differ only in the simulate flag of the transaction.
C12_DryRunSameDecision ==
    (/\ pc = "done" /\ run = 2 /\ ~check_mode
     /\ PerPackage
     /\ prev.answered /\ Answered(calls)
     /\ prev.kind = "exit" /\ outcome.kind = "exit")
    => /\ Len(prev.calls) = Len(calls)
       /\ \A k \in 1..Len(calls) :
             /\ Unflagged(prev.calls[k]) = Unflagged(calls[k])
             /\ calls[k].cmd \in {"add", "del"} =>
                   (prev.calls[k].simulate /\ ~calls[k].simulate)
             /\ calls[k].cmd \in Queries =>
                   (~prev.calls[k].simulate /\ ~calls[k].simulate)
       /\ outcome = prev.outcome

\* foo installed and g++ not, state present: both runs queried foo and g++ and
\* submitted <<g++>>, the first simulated, and both reported changed
C12_Witness ==
    /\ pc = "done" /\ run = 2 /\ ~check_mode
    /\ PerPackage /\ p.state = "present" /\ p.name = <<foo, gpp>>
    /\ prev.answered /\ Answered(calls)
    /\ Len(calls) = 3 /\ Len(prev.calls) = 3
    /\ prev.calls[3].cmd = "add" /\ prev.calls[3].simulate
    /\ prev.calls[3].names = <<gpp>>
    /\ calls[3].cmd = "add" /\ ~calls[3].simulate /\ calls[3].names = <<gpp>>
    /\ prev.outcome.changed /\ outcome.changed

====
